---- MODULE Spec2Model ----
(***************************************************************************)
(* Model of the data profiler of view_db.py: analyze_data, with            *)
(* detect_coordinate_columns, safe_unique_count and safe_value_counts.     *)
(*                                                                         *)
(* Python strings are modelled as sequences of one-character strings, so   *)
(* that str.lower(), the substring test `in`, slicing and concatenation    *)
(* are computed rather than assumed.  pandas semantics are those of        *)
(* pandas 1.x/2.x with numpy-backed object columns.                        *)
(***************************************************************************)
EXTENDS Integers, Sequences, FiniteSets, TLC

(* ------------------------------ bounds --------------------------------- *)
\* Largest row count of the single-column tables.
MaxRows == 5
\* Largest column count of the multi-column tables.
MaxCols == 2

(* --------------------------- Python strings ---------------------------- *)
UpperChars == <<"A", "B", "C", "D", "E", "F", "G", "H", "I", "J", "K", "L", "M",
                "N", "O", "P", "Q", "R", "S", "T", "U", "V", "W", "X", "Y", "Z">>
LowerChars == <<"a", "b", "c", "d", "e", "f", "g", "h", "i", "j", "k", "l", "m",
                "n", "o", "p", "q", "r", "s", "t", "u", "v", "w", "x", "y", "z">>

\* str.lower() on one character.
LowerChar(c) ==
    IF \E k \in 1..Len(UpperChars) : UpperChars[k] = c
    THEN LowerChars[CHOOSE k \in 1..Len(UpperChars) : UpperChars[k] = c]
    ELSE c

\* str.lower()
lower(s) == [k \in 1..Len(s) |-> LowerChar(s[k])]

\* `pat in s` for strings: pat occurs in s as a contiguous substring.
Contains(pat, s) ==
    \E k \in 0..(Len(s) - Len(pat)) : SubSeq(s, k + 1, k + Len(pat)) = pat

\* `x in list`
InSeq(x, seq) == \E k \in 1..Len(seq) : seq[k] = x

(* ---------------------- detect_coordinate_columns ---------------------- *)
lat_names ==
    << <<"l", "a", "t">>,
       <<"l", "a", "t", "i", "t", "u", "d", "e">>,
       <<"y">>,
       <<"y", "_", "c", "o", "o", "r", "d">>,
       <<"n", "o", "r", "t", "h", "i", "n", "g">>,
       <<"l", "a", "t", "_", "d", "e", "g">> >>

lon_names ==
    << <<"l", "o", "n">>,
       <<"l", "n", "g">>,
       <<"l", "o", "n", "g", "i", "t", "u", "d", "e">>,
       <<"x">>,
       <<"x", "_", "c", "o", "o", "r", "d">>,
       <<"e", "a", "s", "t", "i", "n", "g">>,
       <<"l", "o", "n", "_", "d", "e", "g">> >>

lat_patterns == << <<"l", "a", "t">>, <<"y", "_">>, <<"n", "o", "r", "t", "h">> >>

lon_patterns ==
    << <<"l", "o", "n">>, <<"l", "n", "g">>, <<"x", "_">>, <<"e", "a", "s", "t">> >>

\* The condition of the first loop: the lower-cased name is one of the names.
ExactMatch(col) == InSeq(lower(col), lat_names) \/ InSeq(lower(col), lon_names)

\* First loop: the exact matches, appended in column order.
ExactMatches(columns) == SelectSeq(columns, ExactMatch)

\* Some pattern of the list occurs in the lower-cased name.
PatternMatch(patterns, col) ==
    \E k \in 1..Len(patterns) : Contains(patterns[k], lower(col))

\* Mutant: the longitude loop appends without looking at coord_candidates.
PartialStepNoMembershipTest(coord_candidates, col) ==
    LET after_lat ==
            IF PatternMatch(lat_patterns, col) /\ ~InSeq(col, coord_candidates)
            THEN Append(coord_candidates, col)
            ELSE coord_candidates
    IN  IF PatternMatch(lon_patterns, col)
        THEN Append(after_lat, col)
        ELSE after_lat

\* Body of the second loop for one column: the latitude patterns, then the
\* longitude patterns; each inner loop appends at its first pattern that occurs
\* in the name while the column is not yet a candidate, and breaks.
PartialStep(coord_candidates, col) ==
    LET after_lat ==
            IF PatternMatch(lat_patterns, col) /\ ~InSeq(col, coord_candidates)
            THEN Append(coord_candidates, col)
            ELSE coord_candidates
    IN  IF PatternMatch(lon_patterns, col) /\ ~InSeq(col, after_lat)
        THEN Append(after_lat, col)
        ELSE after_lat

RECURSIVE PartialMatches(_, _)
\* Second loop over df.columns, continuing the list of the first loop.
PartialMatches(coord_candidates, columns) ==
    IF columns = <<>>
    THEN coord_candidates
    ELSE PartialMatches(PartialStep(coord_candidates, Head(columns)), Tail(columns))

\* Mutant: one pass over the columns, testing both rules per column.
DetectSinglePass(columns) ==
    SelectSeq(columns,
              LAMBDA col : \/ ExactMatch(col)
                           \/ PatternMatch(lat_patterns, col)
                           \/ PatternMatch(lon_patterns, col))

\* The exact matches, then the partial matches not yet listed.
detect_coordinate_columns(columns) ==
    PartialMatches(ExactMatches(columns), columns)

(* ------------------------------ cells ---------------------------------- *)
\* A cell value: t is its Python type, s is str(value), n is its numeric value
\* (its length for a list), k is list(value.keys()) for a dict.
NoneCell == [t |-> "NoneType", s |-> <<"N", "o", "n", "e">>, n |-> 0, k |-> <<>>]
NaNCell  == [t |-> "nan", s |-> <<"n", "a", "n">>, n |-> 0, k |-> <<>>]
StrA     == [t |-> "str", s |-> <<"a">>, n |-> 0, k |-> <<>>]
StrB     == [t |-> "str", s |-> <<"b">>, n |-> 0, k |-> <<>>]
StrLong  == [t |-> "str", s |-> [j \in 1..60 |-> "x"], n |-> 0, k |-> <<>>]
Int1     == [t |-> "int", s |-> <<"1">>, n |-> 1, k |-> <<>>]
Int2     == [t |-> "int", s |-> <<"2">>, n |-> 2, k |-> <<>>]
Float1   == [t |-> "float", s |-> <<"1", ".", "0">>, n |-> 1, k |-> <<>>]
Float2   == [t |-> "float", s |-> <<"2", ".", "0">>, n |-> 2, k |-> <<>>]
DictK    == [t |-> "dict", s |-> <<"{", "'", "k", "'", ":", " ", "1", "}">>,
             n |-> 0, k |-> << <<"k">> >>]
DictJ    == [t |-> "dict", s |-> <<"{", "'", "j", "'", ":", " ", "2", "}">>,
             n |-> 0, k |-> << <<"j">> >>]
List12   == [t |-> "list", s |-> <<"[", "1", ",", " ", "2", "]">>, n |-> 2, k |-> <<>>]

\* pandas isnull(): None and NaN are both missing.
isnull(v) == v.t \in {"NoneType", "nan"}

\* isinstance(val, (dict, list))
IsDictOrList(v) == v.t \in {"dict", "list"}

\* Values pandas' hash tables cannot hash: they raise TypeError.
Unhashable(v) == v.t \in {"dict", "list"}

(* ------------------------- pandas Series helpers ----------------------- *)
\* Series.isnull().sum()
NullCount(series) == Cardinality({r \in 1..Len(series) : isnull(series[r])})

\* Series.dropna()
dropna(series) == SelectSeq(series, LAMBDA v : ~isnull(v))

\* Series.head(m)
head(series, m) == SubSeq(series, 1, IF Len(series) < m THEN Len(series) ELSE m)

\* Series.nunique() and Series.value_counts() raise TypeError on this series.
RaisesTypeError(series) == \E r \in 1..Len(series) : Unhashable(series[r])

\* Series.nunique(): the distinct values with the missing ones removed.
nunique(series) ==
    Cardinality({series[r] : r \in {q \in 1..Len(series) : ~isnull(series[q])}})

\* Series.astype(str).nunique(): every cell becomes str(value), None becomes
\* 'None' and NaN becomes 'nan', so no cell is missing any more.
nunique_astype_str(series) == Cardinality({series[r].s : r \in 1..Len(series)})

\* safe_unique_count: nunique(), or the string fallback on TypeError.
safe_unique_count(series) ==
    IF ~RaisesTypeError(series)
    THEN nunique(series)
    ELSE nunique_astype_str(series)

\* Series.value_counts(dropna=False).to_dict(): one key per distinct value;
\* None and NaN are distinct keys of an object column.
value_counts(series) ==
    [v \in {series[r] : r \in 1..Len(series)} |->
        Cardinality({r \in 1..Len(series) : series[r] = v})]

\* Series.astype(str).value_counts(dropna=False).to_dict(): keys are strings.
value_counts_astype_str(series) ==
    [s \in {series[r].s : r \in 1..Len(series)} |->
        Cardinality({r \in 1..Len(series) : series[r].s = s})]

\* safe_value_counts: value_counts(dropna=False), or the string fallback.
safe_value_counts(series) ==
    IF ~RaisesTypeError(series)
    THEN value_counts(series)
    ELSE value_counts_astype_str(series)

(* ------------------------------ numbers -------------------------------- *)
\* A float that is a quotient of integers; den = 0 stands for NaN (numpy's
\* result of 0 / 0, a warning and not an exception).
Frac(num, den) == [num |-> num, den |-> den]

\* f > c for a float f and an integer c; every comparison with NaN is False.
FracGT(f, c) == f.den # 0 /\ f.num > c * f.den

\* 2 * f > 1, i.e. f > 0.5
FracGTHalf(f) == f.den # 0 /\ 2 * f.num > f.den

RECURSIVE SumSeq(_)
SumSeq(seq) == IF seq = <<>> THEN 0 ELSE Head(seq) + SumSeq(Tail(seq))

RECURSIVE Insert(_, _)
Insert(x, sorted) ==
    IF sorted = <<>> \/ x <= Head(sorted)
    THEN <<x>> \o sorted
    ELSE <<Head(sorted)>> \o Insert(x, Tail(sorted))

RECURSIVE SortedNums(_)
SortedNums(seq) == IF seq = <<>> THEN <<>> ELSE Insert(Head(seq), SortedNums(Tail(seq)))

MinSeq(seq) == SortedNums(seq)[1]
MaxSeq(seq) == SortedNums(seq)[Len(seq)]
MeanSeq(seq) == Frac(SumSeq(seq), Len(seq))
MedianSeq(seq) ==
    LET sorted == SortedNums(seq)
        m == Len(seq)
    IN  IF m % 2 = 1
        THEN Frac(sorted[(m + 1) \div 2], 1)
        ELSE Frac(sorted[m \div 2] + sorted[m \div 2 + 1], 2)

Digits == <<"0", "1", "2", "3", "4", "5", "6", "7", "8", "9">>

RECURSIVE IntToStr(_)
\* str(n) for n >= 0
IntToStr(n) ==
    IF n < 10 THEN <<Digits[n + 1]>> ELSE IntToStr(n \div 10) \o <<Digits[(n % 10) + 1]>>

RECURSIVE ReprItems(_)
\* The items of repr(list of str), joined by ", ".
ReprItems(keys) ==
    IF keys = <<>> THEN <<>>
    ELSE <<"'">> \o Head(keys) \o <<"'">>
         \o (IF Tail(keys) = <<>> THEN <<>> ELSE <<",", " ">> \o ReprItems(Tail(keys)))

\* repr(list(val.keys())) for string keys
ReprStrList(keys) == <<"[">> \o ReprItems(keys) \o <<"]">>

(* --------------------------- analyze_data ------------------------------ *)
\* (null_count / len(df)) * 100
null_percentage_of(null_count, nrows) == Frac(null_count * 100, nrows)

\* unique_count / len(df) if len(df) > 0 else 0
unique_ratio_of(unique_count, nrows) ==
    IF nrows > 0 THEN Frac(unique_count, nrows) ELSE Frac(0, 1)

\* The col_info dict built for a column before it is categorised.
col_info_of(col, nrows) ==
    [name            |-> col.name,
     dtype           |-> col.dtype,
     null_count      |-> NullCount(col.values),
     null_percentage |-> null_percentage_of(NullCount(col.values), nrows),
     unique_count    |-> safe_unique_count(col.values)]

\* Mutant: the sample is taken before the missing values are dropped.
is_nested_head_before_dropna(col) ==
    /\ col.dtype = "object"
    /\ \E r \in 1..Len(head(col.values, 3)) : IsDictOrList(head(col.values, 3)[r])

\* is_nested: an object column one of whose first 3 non-null values is a
\* dict or a list.
is_nested(col) ==
    /\ col.dtype = "object"
    /\ Len(dropna(col.values)) > 0
    /\ LET sample_values == head(dropna(col.values), 3)
       IN  \E r \in 1..Len(sample_values) : IsDictOrList(sample_values[r])

\* Mutant: the threshold test is >= 20.
is_high_null_inclusive(info) ==
    info.null_percentage.den # 0
        /\ info.null_percentage.num >= 20 * info.null_percentage.den

\* null_percentage > 20
is_high_null(info) == FracGT(info.null_percentage, 20)

\* Mutant: the copy of col_info is inserted at the front of the list.
AppendHighNullAtFront(a, info) ==
    IF is_high_null(info)
    THEN [a EXCEPT !.high_null_fields = <<info>> \o @]
    ELSE a

\* The high-null step: a copy of col_info is appended when the test holds.
AppendHighNull(a, info) ==
    IF is_high_null(info)
    THEN [a EXCEPT !.high_null_fields = Append(@, info)]
    ELSE a

\* The elif condition: dtype in ['int64', 'float64'] or unique_ratio > 0.5
is_unique_or_numeric(col, nrows) ==
    \/ col.dtype \in {"int64", "float64"}
    \/ FracGTHalf(unique_ratio_of(safe_unique_count(col.values), nrows))

\* Mutant: the string is cut when it has 50 characters or more.
ExampleCutsAtFifty(val) ==
    IF val.t = "dict"
    THEN <<"D", "i", "c", "t", " ", "w", "i", "t", "h", " ", "k", "e", "y", "s", ":", " ">>
         \o ReprStrList(val.k)
    ELSE IF val.t = "list"
    THEN <<"L", "i", "s", "t", " ", "w", "i", "t", "h", " ">> \o IntToStr(val.n)
         \o <<" ", "i", "t", "e", "m", "s">>
    ELSE IF Len(val.s) >= 50
    THEN SubSeq(val.s, 1, 50) \o <<".", ".", ".">>
    ELSE val.s

\* One entry of examples.
Example(val) ==
    IF val.t = "dict"
    THEN <<"D", "i", "c", "t", " ", "w", "i", "t", "h", " ", "k", "e", "y", "s", ":", " ">>
         \o ReprStrList(val.k)
    ELSE IF val.t = "list"
    THEN <<"L", "i", "s", "t", " ", "w", "i", "t", "h", " ">> \o IntToStr(val.n)
         \o <<" ", "i", "t", "e", "m", "s">>
    ELSE IF Len(val.s) > 50
    THEN SubSeq(val.s, 1, 50) \o <<".", ".", ".">>
    ELSE val.s

\* col_info of a nested column: nested_type, and examples of the first 3
\* non-null values.
nested_info(col, info) ==
    LET non_null_values == dropna(col.values)
        typed == info @@ [nested_type |-> "dict/list"]
    IN  IF Len(non_null_values) > 0
        THEN typed @@ [examples |->
                 [r \in 1..Len(head(non_null_values, 3)) |->
                     Example(head(non_null_values, 3)[r])]]
        ELSE typed

\* col_info of a unique/numerical column: the statistics of a 64-bit numeric
\* column with at least one non-null value.
unique_info(col, info) ==
    LET non_null_data == dropna(col.values)
        nums == [r \in 1..Len(non_null_data) |-> non_null_data[r].n]
    IN  IF col.dtype \in {"int64", "float64"} /\ Len(non_null_data) > 0
        THEN info @@ [min    |-> MinSeq(nums),
                      max    |-> MaxSeq(nums),
                      mean   |-> MeanSeq(nums),
                      median |-> MedianSeq(nums)]
        ELSE info

\* col_info of a categorical column.
categorical_info(col, info) == info @@ [value_counts |-> safe_value_counts(col.values)]

\* Mutant: `if` where the code has `elif`, so that a nested column falls
\* through to the unique/categorical decision as well.
NestedBranchFallsThrough(a, col, nrows) ==
    LET info == col_info_of(col, nrows)
        b == [AppendHighNull(a, info) EXCEPT
                 !.nested_fields = Append(@, nested_info(col, info))]
    IN  IF is_unique_or_numeric(col, nrows)
        THEN [b EXCEPT !.unique_fields = Append(@, unique_info(col, info))]
        ELSE [b EXCEPT !.categorical_fields = Append(@, categorical_info(col, info))]

\* Mutant: col_info itself, not a copy, is appended to high_null_fields, so
\* that the fields added afterwards show in both lists.
NestedBranchWithoutCopy(a, col, nrows) ==
    LET info == col_info_of(col, nrows)
        b == IF is_high_null(info)
             THEN [a EXCEPT !.high_null_fields = Append(@, nested_info(col, info))]
             ELSE a
    IN  [b EXCEPT !.nested_fields = Append(@, nested_info(col, info))]

\* One iteration of the column loop for a nested column.
NestedBranch(a, col, nrows) ==
    LET info == col_info_of(col, nrows)
    IN  [AppendHighNull(a, info) EXCEPT
            !.nested_fields = Append(@, nested_info(col, info))]

\* One iteration of the column loop for a unique/numerical column.
UniqueBranch(a, col, nrows) ==
    LET info == col_info_of(col, nrows)
    IN  [AppendHighNull(a, info) EXCEPT
            !.unique_fields = Append(@, unique_info(col, info))]

\* One iteration of the column loop for a categorical column.
CategoricalBranch(a, col, nrows) ==
    LET info == col_info_of(col, nrows)
    IN  [AppendHighNull(a, info) EXCEPT
            !.categorical_fields = Append(@, categorical_info(col, info))]

\* Mutant: coordinate detection runs whatever is_spatial says.
CoordinateCandidatesAlways(table, sinfo) ==
    detect_coordinate_columns([c \in 1..Len(table.cols) |-> table.cols[c].name])

\* if not spatial_info['is_spatial']: detect_coordinate_columns(df), else the
\* initial empty list.
CoordinateCandidates(table, sinfo) ==
    IF ~sinfo.is_spatial
    THEN detect_coordinate_columns([c \in 1..Len(table.cols) |-> table.cols[c].name])
    ELSE <<>>

(* ------------------------------ inputs --------------------------------- *)
\* Cell values a column of each dtype can hold.
CellsOf(dtype) ==
    CASE dtype = "object"  -> {NoneCell, NaNCell, StrA, StrB, DictK, DictJ}
      [] dtype = "float64" -> {Float1, Float2, NaNCell}
      [] dtype = "int64"   -> {Int1, Int2}
      [] dtype = "int32"   -> {Int1, Int2}

Dtypes == {"object", "float64", "int64", "int32"}

\* Strings of exactly 50 and of 51 characters: "1234567890" repeated.
Str50 == [t |-> "str", s |-> [j \in 1..50 |-> Digits[(j % 10) + 1]], n |-> 0, k |-> <<>>]
Str51 == [t |-> "str", s |-> [j \in 1..51 |-> Digits[(j % 10) + 1]], n |-> 0, k |-> <<>>]

\* Cell values of the object columns whose examples are rendered.
ExampleCells == {NoneCell, DictK, List12, Str50, Str51, StrA}

NameName     == <<"n", "a", "m", "e">>
NameLatitude == <<"L", "a", "t", "i", "t", "u", "d", "e">>
NameLng      == <<"L", "n", "g">>
NameXPos     == <<"x", "_", "p", "o", "s">>
NamePlatform == <<"p", "l", "a", "t", "f", "o", "r", "m">>
NameLatLon   == <<"l", "a", "t", "_", "l", "o", "n">>
NameY        == <<"Y">>

Names == {NameName, NameLatitude, NameLng, NameXPos, NamePlatform, NameLatLon, NameY}

\* spatial_info as load_data builds it for a non-spatial and a spatial file.
NonSpatialInfo ==
    [is_spatial |-> FALSE, crs |-> "None", geometry_column |-> "None",
     geometry_types |-> <<>>]
SpatialInfo ==
    [is_spatial |-> TRUE, crs |-> "EPSG:4326", geometry_column |-> "geometry",
     geometry_types |-> <<"Point">>]

\* A table of one column.
SingleColumnTable(dtype, values) ==
    [cols  |-> <<[name |-> NameName, dtype |-> dtype, values |-> values]>>,
     nrows |-> Len(values)]

\* Column contents of the multi-column tables: all of the same length.
Shapes ==
    {[dtype |-> "int64",  values |-> <<Int1, Int1>>],
     [dtype |-> "object", values |-> <<DictK, NoneCell>>],
     [dtype |-> "object", values |-> <<StrA, StrA>>],
     [dtype |-> "object", values |-> <<List12, StrLong>>]}

\* Sequences of m distinct column names.
NameSeqs(m) ==
    {ns \in [1..m -> Names] : \A p, q \in 1..m : p # q => ns[p] # ns[q]}

\* A table with the given column names and contents, in order.
MultiColumnTable(names, shapes) ==
    [cols  |-> [c \in 1..Len(names) |->
                  [name |-> names[c], dtype |-> shapes[c].dtype,
                   values |-> shapes[c].values]],
     nrows |-> IF Len(names) = 0 THEN 0 ELSE Len(shapes[1].values)]

(* --------------------------- state machine ----------------------------- *)
\* analyze_data: its two arguments, the analysis dict, the control position,
\* the index of the column loop, and the reports returned to the caller so far.
VARIABLES df, spatial_info, analysis, pc, i, returned

\* clean_and_export: the DataFrame as loaded, the DataFrame being cleaned, the
\* arguments (columns, drop_nulls, null_threshold) and the control position.
VARIABLES loaded, cdf, args, cpc

profileVars == <<df, spatial_info, analysis, pc, i, returned>>
cleanVars == <<loaded, cdf, args, cpc>>
vars == <<df, spatial_info, analysis, pc, i, returned, loaded, cdf, args, cpc>>

\* clean_and_export is not running.
CleanIdle ==
    /\ loaded = [columns |-> <<>>, nrows |-> 0, null |-> <<>>]
    /\ cdf = loaded
    /\ args = [columns |-> <<>>, drop_nulls |-> FALSE, null_threshold |-> <<>>]
    /\ cpc = "idle"

\* Mutant: the lists of the dict are shared between calls (built once, as a
\* default argument or a module-level template would be).
InitialAnalysisSharedLists(table, sinfo) ==
    [total_columns         |-> Len(table.cols),
     total_rows            |-> table.nrows,
     unique_fields         |-> IF returned = <<>> THEN <<>> ELSE returned[1].unique_fields,
     categorical_fields    |->
         IF returned = <<>> THEN <<>> ELSE returned[1].categorical_fields,
     high_null_fields      |->
         IF returned = <<>> THEN <<>> ELSE returned[1].high_null_fields,
     nested_fields         |-> IF returned = <<>> THEN <<>> ELSE returned[1].nested_fields,
     spatial_info          |-> sinfo,
     coordinate_candidates |-> <<>>]

\* Mutant: the report carries a default spatial_info, not the argument.
InitialAnalysisDefaultSpatial(table, sinfo) ==
    [total_columns         |-> Len(table.cols),
     total_rows            |-> table.nrows,
     unique_fields         |-> <<>>,
     categorical_fields    |-> <<>>,
     high_null_fields      |-> <<>>,
     nested_fields         |-> <<>>,
     spatial_info          |-> NonSpatialInfo,
     coordinate_candidates |-> <<>>]

\* The analysis dict as analyze_data first builds it.
InitialAnalysis(table, sinfo) ==
    [total_columns         |-> Len(table.cols),
     total_rows            |-> table.nrows,
     unique_fields         |-> <<>>,
     categorical_fields    |-> <<>>,
     high_null_fields      |-> <<>>,
     nested_fields         |-> <<>>,
     spatial_info          |-> sinfo,
     coordinate_candidates |-> <<>>]

\* The call analyze_data(df, spatial_info) with the analysis dict built: df is
\* a single-column table with any content of up to MaxRows rows, or a table of
\* up to MaxCols columns with distinct names.
Init ==
    /\ \/ /\ \E r \in 0..MaxRows, d \in Dtypes :
                \E vs \in [1..r -> CellsOf(d)] : df = SingleColumnTable(d, vs)
          /\ spatial_info = NonSpatialInfo
       \/ /\ \E m \in 0..MaxCols :
                \E ns \in NameSeqs(m), sh \in [1..m -> Shapes] :
                    df = MultiColumnTable(ns, sh)
          /\ spatial_info \in {NonSpatialInfo, SpatialInfo}
    /\ returned = <<>>
    /\ analysis = InitialAnalysis(df, spatial_info)
    /\ pc = "detect"
    /\ i = 1
    /\ CleanIdle

\* The coordinate step before the column loop.
DetectCoordinates ==
    /\ pc = "detect"
    /\ analysis' = [analysis EXCEPT
                       !.coordinate_candidates = CoordinateCandidates(df, spatial_info)]
    /\ pc' = "loop"
    /\ UNCHANGED <<df, spatial_info, i, returned>>
    /\ UNCHANGED cleanVars

\* Loop iteration, first branch.
NestedField ==
    /\ pc = "loop"
    /\ i <= Len(df.cols)
    /\ is_nested(df.cols[i])
    /\ analysis' = NestedBranch(analysis, df.cols[i], df.nrows)
    /\ i' = i + 1
    /\ UNCHANGED <<df, spatial_info, pc, returned>>
    /\ UNCHANGED cleanVars

\* Loop iteration, second branch.
UniqueField ==
    /\ pc = "loop"
    /\ i <= Len(df.cols)
    /\ ~is_nested(df.cols[i])
    /\ is_unique_or_numeric(df.cols[i], df.nrows)
    /\ analysis' = UniqueBranch(analysis, df.cols[i], df.nrows)
    /\ i' = i + 1
    /\ UNCHANGED <<df, spatial_info, pc, returned>>
    /\ UNCHANGED cleanVars

\* Loop iteration, third branch.
CategoricalField ==
    /\ pc = "loop"
    /\ i <= Len(df.cols)
    /\ ~is_nested(df.cols[i])
    /\ ~is_unique_or_numeric(df.cols[i], df.nrows)
    /\ analysis' = CategoricalBranch(analysis, df.cols[i], df.nrows)
    /\ i' = i + 1
    /\ UNCHANGED <<df, spatial_info, pc, returned>>
    /\ UNCHANGED cleanVars

\* Mutant: a table without columns is rejected and nothing is returned.
ReturnRejectsEmptyTable ==
    /\ pc = "loop"
    /\ i > Len(df.cols)
    /\ IF Len(df.cols) = 0
       THEN pc' = "error" /\ returned' = returned
       ELSE pc' = "done" /\ returned' = Append(returned, analysis)
    /\ UNCHANGED <<df, spatial_info, analysis, i>>
    /\ UNCHANGED cleanVars

\* return analysis
Return ==
    /\ pc = "loop"
    /\ i > Len(df.cols)
    /\ pc' = "done"
    /\ returned' = Append(returned, analysis)
    /\ UNCHANGED <<df, spatial_info, analysis, i>>
    /\ UNCHANGED cleanVars

Next == DetectCoordinates \/ NestedField \/ UniqueField \/ CategoricalField \/ Return

Spec == Init /\ [][Next]_vars

\* The caller calls analyze_data a second time with the same two objects.
CallAgain ==
    /\ pc = "done"
    /\ Len(returned) < 2
    /\ analysis' = InitialAnalysis(df, spatial_info)
    /\ pc' = "detect"
    /\ i' = 1
    /\ UNCHANGED <<df, spatial_info, returned>>
    /\ UNCHANGED cleanVars

\* Two calls in a row on a table of up to MaxCols columns.
InitTwice ==
    /\ \E m \in 0..MaxCols :
          \E ns \in NameSeqs(m), sh \in [1..m -> Shapes] :
              df = MultiColumnTable(ns, sh)
    /\ spatial_info \in {NonSpatialInfo, SpatialInfo}
    /\ returned = <<>>
    /\ analysis = InitialAnalysis(df, spatial_info)
    /\ pc = "detect"
    /\ i = 1
    /\ CleanIdle

\* One call on a single object column of up to MaxRows cells, among them
\* dicts, lists and strings of 50 and 51 characters.
InitExamples ==
    /\ \E r \in 0..MaxRows :
          \E vs \in [1..r -> ExampleCells] : df = SingleColumnTable("object", vs)
    /\ spatial_info = NonSpatialInfo
    /\ returned = <<>>
    /\ analysis = InitialAnalysis(df, spatial_info)
    /\ pc = "detect"
    /\ i = 1
    /\ CleanIdle

SpecExamples == InitExamples /\ [][Next]_vars

NextTwice == Next \/ CallAgain

SpecTwice == InitTwice /\ [][NextTwice]_vars

\* The report has been returned.
Done == pc = "done"

TypeOK ==
    /\ pc \in {"detect", "loop", "done"}
    /\ i \in 1..(Len(df.cols) + 1)
    /\ analysis.total_columns = Len(df.cols)

(* ------------------------- reading the report -------------------------- *)
\* How many entries of a report list carry the column name.
CountIn(group, name) == Cardinality({e \in 1..Len(group) : group[e].name = name})

\* The entries of the three category groups.
CategoryEntries ==
    analysis.nested_fields \o analysis.unique_fields \o analysis.categorical_fields

\* The category entry of a column that has one.
ProfileOf(name) ==
    CategoryEntries[CHOOSE e \in 1..Len(CategoryEntries) : CategoryEntries[e].name = name]

\* Indexes of the columns the loop has completed.
Processed == 1..(i - 1)

\* Rows of a column holding a non-null value.
NonNullRows(col) == {r \in 1..Len(col.values) : ~isnull(col.values[r])}

\* Rows holding one of the first 3 non-null values of a column.
FirstThreeNonNullRows(col) ==
    {r \in NonNullRows(col) : Cardinality({q \in NonNullRows(col) : q < r}) < 3}

(* ------------------------------- C1 ------------------------------------ *)
\* C1: every column the loop has completed is in exactly one of
\* nested_fields, unique_fields, categorical_fields, exactly once; columns
\* not yet reached are in none; so in the returned report the three sizes
\* sum to the column count.
C1_ExactlyOneCategory ==
    /\ \A c \in 1..Len(df.cols) :
          CountIn(analysis.nested_fields, df.cols[c].name)
          + CountIn(analysis.unique_fields, df.cols[c].name)
          + CountIn(analysis.categorical_fields, df.cols[c].name)
          = IF c \in Processed THEN 1 ELSE 0
    /\ Done => Len(analysis.nested_fields) + Len(analysis.unique_fields)
                  + Len(analysis.categorical_fields) = analysis.total_columns

\* A returned report of a two-column table with a nested and a categorical column.
C1_Witness ==
    /\ Done
    /\ Len(df.cols) = 2
    /\ Len(analysis.nested_fields) = 1
    /\ Len(analysis.categorical_fields) = 1

(* ------------------------------- C2 ------------------------------------ *)
\* C2: when a column holds an unhashable value, so that safe_unique_count
\* takes the string fallback, the reported unique_count is the number of
\* distinct string renderings of its non-null values (nulls are not counted).
C2_FallbackIgnoresNulls ==
    Done => \A c \in 1..Len(df.cols) :
                RaisesTypeError(df.cols[c].values) =>
                    ProfileOf(df.cols[c].name).unique_count
                        = Cardinality({df.cols[c].values[r].s : r \in NonNullRows(df.cols[c])})

(* ------------------------------- C3 ------------------------------------ *)
\* C3: for every column, null_count plus the non-null cells is row_count,
\* the reported null ratio is null_count / row_count and lies in [0, 1], and
\* it is the number 0 when the table has zero rows.
C3_NullRatio ==
    Done => \A c \in 1..Len(df.cols) :
                LET e == ProfileOf(df.cols[c].name)
                IN  /\ e.null_count + Cardinality(NonNullRows(df.cols[c])) = df.nrows
                    /\ e.null_percentage.den # 0
                    /\ e.null_percentage.num >= 0
                    /\ e.null_percentage.num <= 100 * e.null_percentage.den
                    /\ df.nrows > 0 =>
                          e.null_percentage.num * df.nrows
                              = 100 * e.null_count * e.null_percentage.den
                    /\ df.nrows = 0 => e.null_percentage.num = 0

(* ------------------------------- C4 ------------------------------------ *)
\* C4: a column is in nested_fields if and only if its dtype is object and
\* one of its first 3 non-null values is a dict or a list; so a numeric
\* column is never nested, and neither is an object column whose dicts and
\* lists all come after its first 3 non-null values.
C4_NestedDecision ==
    \A c \in Processed :
        CountIn(analysis.nested_fields, df.cols[c].name) = 1
        <=> /\ df.cols[c].dtype = "object"
            /\ \E r \in FirstThreeNonNullRows(df.cols[c]) :
                  df.cols[c].values[r].t \in {"dict", "list"}

\* A returned report whose object column holds a dict, but only after three
\* other non-null values and a null, and is not nested.
C4_Witness ==
    /\ Done
    /\ \E c \in 1..Len(df.cols) :
          /\ df.cols[c].dtype = "object"
          /\ \E r \in NonNullRows(df.cols[c]) : df.cols[c].values[r].t = "dict"
          /\ NullCount(df.cols[c].values) > 0
          /\ CountIn(analysis.nested_fields, df.cols[c].name) = 0

(* ------------------------------- C5 ------------------------------------ *)
\* The integer and float dtypes of the tables.
NumericDtypes == {"int64", "float64", "int32"}

\* C5: a column that is not nested is in unique_fields if and only if its
\* dtype is numeric or unique_count / row_count > 0.5 (0 for zero rows), and
\* is in categorical_fields otherwise.
C5_UniqueDecision ==
    \A c \in Processed :
        CountIn(analysis.nested_fields, df.cols[c].name) = 0 =>
            LET e == ProfileOf(df.cols[c].name)
                unique == \/ df.cols[c].dtype \in NumericDtypes
                          \/ df.nrows > 0 /\ 2 * e.unique_count > df.nrows
            IN  /\ CountIn(analysis.unique_fields, df.cols[c].name) = 1 <=> unique
                /\ CountIn(analysis.categorical_fields, df.cols[c].name) = 1 <=> ~unique

(* ------------------------------- C6 ------------------------------------ *)
\* Index in the table of the column with this name.
ColumnIndex(name) == CHOOSE c \in 1..Len(df.cols) : df.cols[c].name = name

\* C6 as stated: the candidate list is in table column order, whichever rule
\* matched each candidate.
C6_TableOrder ==
    Done => \A p, q \in 1..Len(analysis.coordinate_candidates) :
                p < q <=> ColumnIndex(analysis.coordinate_candidates[p])
                            < ColumnIndex(analysis.coordinate_candidates[q])

\* C6 amended: the candidates matched by the exact-name rule come first, in
\* table column order, and the candidates matched only by the substring rule
\* follow them, in table column order.
C6_ExactFirstThenTableOrder ==
    Done => \A p, q \in 1..Len(analysis.coordinate_candidates) :
                LET a == analysis.coordinate_candidates[p]
                    b == analysis.coordinate_candidates[q]
                IN  p < q =>
                      IF ExactMatch(a) = ExactMatch(b)
                      THEN ColumnIndex(a) < ColumnIndex(b)
                      ELSE ExactMatch(a) /\ ~ExactMatch(b)

\* A returned report whose first candidate is a later column than its second:
\* an exact-name match listed before a substring match that precedes it in
\* the table.
C6_Witness ==
    /\ Done
    /\ Len(analysis.coordinate_candidates) = 2
    /\ ColumnIndex(analysis.coordinate_candidates[1])
          > ColumnIndex(analysis.coordinate_candidates[2])
    /\ ExactMatch(analysis.coordinate_candidates[1])
    /\ ~ExactMatch(analysis.coordinate_candidates[2])

(* ------------------------------- C7 ------------------------------------ *)
LatNameSet == {lat_names[k] : k \in 1..Len(lat_names)}
LonNameSet == {lon_names[k] : k \in 1..Len(lon_names)}
SubstringSet ==
    {lat_patterns[k] : k \in 1..Len(lat_patterns)}
        \cup {lon_patterns[k] : k \in 1..Len(lon_patterns)}

\* The membership rule of C7 for a column name.
IsCoordinateName(name) ==
    \/ lower(name) \in LatNameSet \cup LonNameSet
    \/ \E pat \in SubstringSet : Contains(pat, lower(name))

\* How many times a name occurs in a list of names.
Occurrences(names, name) == Cardinality({p \in 1..Len(names) : names[p] = name})

\* C7: in a report of a non-spatial table (distinct column names) a column is
\* listed in coordinate_candidates exactly once when its name satisfies the
\* rule and not at all otherwise, and nothing else is listed.
C7_CandidateMembership ==
    (pc # "detect" /\ ~spatial_info.is_spatial) =>
        /\ \A c \in 1..Len(df.cols) :
              Occurrences(analysis.coordinate_candidates, df.cols[c].name)
                  = IF IsCoordinateName(df.cols[c].name) THEN 1 ELSE 0
        /\ \A p \in 1..Len(analysis.coordinate_candidates) :
              \E c \in 1..Len(df.cols) :
                  df.cols[c].name = analysis.coordinate_candidates[p]

\* A returned report listing once a column that matches a latitude and a
\* longitude substring, beside a column that is not listed.
C7_Witness ==
    /\ Done
    /\ ~spatial_info.is_spatial
    /\ \E c \in 1..Len(df.cols) :
          /\ PatternMatch(lat_patterns, df.cols[c].name)
          /\ PatternMatch(lon_patterns, df.cols[c].name)
          /\ Occurrences(analysis.coordinate_candidates, df.cols[c].name) = 1
    /\ \E c \in 1..Len(df.cols) :
          Occurrences(analysis.coordinate_candidates, df.cols[c].name) = 0

(* ------------------------------- C8 ------------------------------------ *)
\* C8: coordinate_candidates is empty, at every point of the call, when
\* spatial_info.is_spatial is true, whatever the column names are.
C8_NoCandidatesWhenSpatial ==
    spatial_info.is_spatial => analysis.coordinate_candidates = <<>>

\* A returned report of a spatial table one of whose columns has a
\* coordinate name.
C8_Witness ==
    /\ Done
    /\ spatial_info.is_spatial
    /\ \E c \in 1..Len(df.cols) : IsCoordinateName(df.cols[c].name)

(* ------------------------------- C9 ------------------------------------ *)
\* C9: a completed column is in high_null_fields, once, if and only if more
\* than 20% of its cells are null (100 * nulls > 20 * rows), whatever its
\* category, and it is in its category group as well.
C9_HighNull ==
    \A c \in Processed :
        LET nulls == Len(df.cols[c].values) - Cardinality(NonNullRows(df.cols[c]))
        IN  /\ CountIn(analysis.high_null_fields, df.cols[c].name)
                  = IF 100 * nulls > 20 * df.nrows THEN 1 ELSE 0
            /\ CountIn(CategoryEntries, df.cols[c].name) = 1

\* A returned report of a table of 5 rows whose column has exactly 1 null
\* (20%) and is not flagged.
C9_Witness ==
    /\ Done
    /\ df.nrows = 5
    /\ \E c \in 1..Len(df.cols) :
          /\ Cardinality(NonNullRows(df.cols[c])) = 4
          /\ CountIn(analysis.high_null_fields, df.cols[c].name) = 0

(* ------------------------------- C10 ----------------------------------- *)
RECURSIVE SumCounts(_, _)
\* Sum of the counts of a value_counts dict over a set of its keys.
SumCounts(counts, keys) ==
    IF keys = {} THEN 0
    ELSE LET key == CHOOSE x \in keys : TRUE
         IN  counts[key] + SumCounts(counts, keys \ {key})

\* The keys of the value_counts of a column under which its null cells are
\* counted: the cell itself on the direct path, its string on the fallback.
NullKeys(col) ==
    IF RaisesTypeError(col.values)
    THEN {col.values[r].s : r \in {q \in 1..Len(col.values) : isnull(col.values[q])}}
    ELSE {col.values[r] : r \in {q \in 1..Len(col.values) : isnull(col.values[q])}}

\* C10: the value_counts of a categorical column sum to row_count, and its
\* null cells are all counted under one single key (none when it has no null).
C10_NullsInOneBucket ==
    \A c \in Processed :
        CountIn(analysis.categorical_fields, df.cols[c].name) = 1 =>
            LET e == ProfileOf(df.cols[c].name)
            IN  /\ SumCounts(e.value_counts, DOMAIN e.value_counts) = df.nrows
                /\ NullKeys(df.cols[c]) \subseteq DOMAIN e.value_counts
                /\ Cardinality(NullKeys(df.cols[c]))
                      = IF NullCount(df.cols[c].values) > 0 THEN 1 ELSE 0

(* ------------------------------- C11 ----------------------------------- *)
StatFields == {"min", "max", "mean", "median"}

\* C11: the profile of a column carries min, max, mean and median if and
\* only if the column is in unique_fields, its dtype is numeric and it has a
\* non-null value; otherwise it carries none of the four.
C11_StatsPresence ==
    \A c \in Processed :
        LET e == ProfileOf(df.cols[c].name)
            due == /\ CountIn(analysis.unique_fields, df.cols[c].name) = 1
                   /\ df.cols[c].dtype \in NumericDtypes
                   /\ NonNullRows(df.cols[c]) # {}
        IN  IF due
            THEN StatFields \subseteq DOMAIN e
            ELSE StatFields \cap DOMAIN e = {}

(* ------------------------------- C12 ----------------------------------- *)
\* C12 as stated: a table with zero columns is rejected, and no report is
\* produced for it.
C12_EmptyTableRejected ==
    Len(df.cols) = 0 => pc # "done" /\ returned = <<>>

\* C12 amended: a table with zero columns is profiled without an error: the
\* call never aborts, and it returns a report with total_columns 0,
\* total_rows len(df), the spatial_info passed in, and every list empty.
C12_EmptyTableProfiled ==
    (Len(df.cols) = 0 /\ cpc = "idle") =>
        /\ pc \in {"detect", "loop", "done"}
        /\ Done =>
              /\ Len(returned) = 1
              /\ returned[1] = [total_columns         |-> 0,
                                total_rows            |-> df.nrows,
                                unique_fields         |-> <<>>,
                                categorical_fields    |-> <<>>,
                                high_null_fields      |-> <<>>,
                                nested_fields         |-> <<>>,
                                spatial_info          |-> spatial_info,
                                coordinate_candidates |-> <<>>]

\* The report of a table with zero columns has been returned.
C12_Witness == Done /\ Len(df.cols) = 0 /\ Len(returned) = 1

(* ------------------------------- C13 ----------------------------------- *)
\* The entries of a report list stand in table column order.
InColumnOrder(group) ==
    \A p, q \in 1..Len(group) :
        p < q => ColumnIndex(group[p].name) < ColumnIndex(group[q].name)

\* C13: in each of nested_fields, unique_fields, categorical_fields and
\* high_null_fields the entries are in table column order.
C13_GroupsInColumnOrder ==
    /\ InColumnOrder(analysis.nested_fields)
    /\ InColumnOrder(analysis.unique_fields)
    /\ InColumnOrder(analysis.categorical_fields)
    /\ InColumnOrder(analysis.high_null_fields)

\* A returned report with two entries in nested_fields and two in
\* high_null_fields.
C13_Witness ==
    /\ Done
    /\ Len(analysis.nested_fields) = 2
    /\ Len(analysis.high_null_fields) = 2

DescriptiveFields == {"name", "dtype", "null_count", "null_percentage", "unique_count"}

\* C15: an entry of high_null_fields has the descriptive fields and no other,
\* and they equal those of the column's entry in its category group.
C15_HighNullEntry ==
    \A h \in 1..Len(analysis.high_null_fields) :
        LET entry == analysis.high_null_fields[h]
            e == ProfileOf(entry.name)
        IN  /\ DOMAIN entry = DescriptiveFields
            /\ DescriptiveFields \subseteq DOMAIN e
            /\ \A f \in DescriptiveFields : entry[f] = e[f]

\* A returned report with a high-null column whose category entry carries
\* category-specific fields.
C15_Witness ==
    /\ Done
    /\ \E h \in 1..Len(analysis.high_null_fields) :
          DOMAIN ProfileOf(analysis.high_null_fields[h].name) # DescriptiveFields

(* ------------------------------- C16 ----------------------------------- *)
\* C16: the spatial_info of the analysis dict, and of every report returned,
\* is the spatial_info passed in, field by field.
C16_SpatialPassThrough ==
    /\ analysis.spatial_info = spatial_info
    /\ \A k \in 1..Len(returned) :
          /\ returned[k].spatial_info.is_spatial = spatial_info.is_spatial
          /\ returned[k].spatial_info.crs = spatial_info.crs
          /\ returned[k].spatial_info.geometry_column = spatial_info.geometry_column
          /\ returned[k].spatial_info.geometry_types = spatial_info.geometry_types

\* A report has been returned for a spatial table.
C16_Witness ==
    /\ Done
    /\ Len(returned) = 1
    /\ spatial_info.is_spatial
    /\ returned[1].spatial_info.crs = "EPSG:4326"

(* ------------------------------- C17 ----------------------------------- *)
\* The row of the r-th non-null value of a column.
NthNonNullRow(col, r) ==
    CHOOSE row \in NonNullRows(col) :
        Cardinality({q \in NonNullRows(col) : q < row}) = r - 1

\* C17: the examples of a nested column are min(3, non-null count) entries,
\* the r-th rendering the r-th non-null value: a dict by the list of its keys,
\* a list by its length, another value by its string, cut to 50 characters
\* and followed by "..." exactly when the string is longer than 50.
C17_Examples ==
    \A c \in Processed :
        CountIn(analysis.nested_fields, df.cols[c].name) = 1 =>
            LET col == df.cols[c]
                examples == ProfileOf(col.name).examples
                count == Cardinality(NonNullRows(col))
            IN  /\ Len(examples) = IF count < 3 THEN count ELSE 3
                /\ \A r \in 1..Len(examples) :
                      LET val == col.values[NthNonNullRow(col, r)]
                          x == examples[r]
                      IN  /\ val.t = "dict" =>
                                x = <<"D", "i", "c", "t", " ", "w", "i", "t", "h", " ",
                                      "k", "e", "y", "s", ":", " ">> \o ReprStrList(val.k)
                          /\ val = DictK =>
                                x = <<"D", "i", "c", "t", " ", "w", "i", "t", "h", " ",
                                      "k", "e", "y", "s", ":", " ", "[", "'", "k", "'", "]">>
                          /\ val.t = "list" =>
                                x = <<"L", "i", "s", "t", " ", "w", "i", "t", "h", " ">>
                                    \o IntToStr(val.n) \o <<" ", "i", "t", "e", "m", "s">>
                          /\ val = List12 =>
                                x = <<"L", "i", "s", "t", " ", "w", "i", "t", "h", " ",
                                      "2", " ", "i", "t", "e", "m", "s">>
                          /\ (val.t \notin {"dict", "list"} /\ Len(val.s) > 50) =>
                                /\ Len(x) = 53
                                /\ SubSeq(x, 1, 50) = SubSeq(val.s, 1, 50)
                                /\ SubSeq(x, 51, 53) = <<".", ".", ".">>
                          /\ (val.t \notin {"dict", "list"} /\ Len(val.s) <= 50) =>
                                x = val.s

\* A returned report of a nested column that starts with a null, has more
\* than 3 non-null values, and has a cut example and an uncut one of 50
\* characters.
C17_Witness ==
    /\ Done
    /\ \E c \in 1..Len(df.cols) :
          /\ CountIn(analysis.nested_fields, df.cols[c].name) = 1
          /\ isnull(df.cols[c].values[1])
          /\ Cardinality(NonNullRows(df.cols[c])) > 3
          /\ \E r \in 1..3 : Len(ProfileOf(df.cols[c].name).examples[r]) = 53
          /\ \E r \in 1..3 : ProfileOf(df.cols[c].name).examples[r] = Str50.s

(* ========================= clean_and_export ============================ *)
(* clean_db.py.  A DataFrame is modelled by its column names, its row      *)
(* count and, per column, the isnull() flag of every cell: no step of      *)
(* clean_and_export reads anything else of a cell.  null_threshold is      *)
(* <<>> for None and <<t>> for the number t (a percentage).                *)
(* ----------------------------------------------------------------------- *)
\* Largest row count of the loaded DataFrame.
MaxCleanRows == 3

\* Index of the first column of the DataFrame with this name.
ColumnPos(d, name) == CHOOSE c \in 1..Len(d.columns) : d.columns[c] = name

\* df[available_cols]: the requested columns that exist, in the order requested.
select_columns(d, columns) ==
    LET available_cols == SelectSeq(columns, LAMBDA col : InSeq(col, d.columns))
    IN  [columns |-> available_cols,
         nrows   |-> d.nrows,
         null    |-> [c \in 1..Len(available_cols) |->
                        d.null[ColumnPos(d, available_cols[c])]]]

\* df.dropna(): the rows without a null in any column, in order.
drop_null_rows(d) ==
    LET kept == SelectSeq([r \in 1..d.nrows |-> r],
                          LAMBDA r : \A c \in 1..Len(d.columns) : ~d.null[c][r])
    IN  [columns |-> d.columns,
         nrows   |-> Len(kept),
         null    |-> [c \in 1..Len(d.columns) |->
                        [r \in 1..Len(kept) |-> d.null[c][kept[r]]]]]

\* df.isnull().mean() of one column: NaN for a DataFrame without rows.
isnull_mean(d, c) ==
    Frac(Cardinality({r \in 1..d.nrows : d.null[c][r]}), d.nrows)

\* mean < (null_threshold / 100); False when mean is NaN.
BelowThreshold(mean, t) == mean.den # 0 /\ 100 * mean.num < t * mean.den

\* Mutant: the null fractions are taken from the DataFrame as loaded, that is
\* before the rows with nulls were dropped.
threshold_filter_on_loaded_rows(d, t) ==
    LET kept == SelectSeq([c \in 1..Len(d.columns) |-> c],
                          LAMBDA c : BelowThreshold(
                              isnull_mean(loaded, ColumnPos(loaded, d.columns[c])), t))
    IN  [columns |-> [c \in 1..Len(kept) |-> d.columns[kept[c]]],
         nrows   |-> d.nrows,
         null    |-> [c \in 1..Len(kept) |-> d.null[kept[c]]]]

\* df.loc[:, df.isnull().mean() < (null_threshold/100)]
threshold_filter(d, t) ==
    LET kept == SelectSeq([c \in 1..Len(d.columns) |-> c],
                          LAMBDA c : BelowThreshold(isnull_mean(d, c), t))
    IN  [columns |-> [c \in 1..Len(kept) |-> d.columns[kept[c]]],
         nrows   |-> d.nrows,
         null    |-> [c \in 1..Len(kept) |-> d.null[kept[c]]]]

\* The values of the --columns option: absent, or names of which "zz" is no
\* column of the DataFrame.
ColumnArgs ==
    {<<>>, <<"a">>, <<"b">>, <<"a", "b">>, <<"b", "a">>, <<"a", "zz">>, <<"zz">>}

\* The values of the --null-threshold option: absent, or a number.
ThresholdArgs == {<<>>, <<0>>, <<50>>, <<100>>, <<-50>>}

\* analyze_data is not running.
ProfileIdle ==
    /\ df = MultiColumnTable(<<>>, <<>>)
    /\ spatial_info = NonSpatialInfo
    /\ returned = <<>>
    /\ analysis = InitialAnalysis(df, spatial_info)
    /\ pc = "idle"
    /\ i = 1

\* clean_and_export after load_data: a DataFrame of columns a and b with up
\* to MaxCleanRows rows, and the options.
InitClean ==
    /\ ProfileIdle
    /\ \E r \in 0..MaxCleanRows :
          \E na \in [1..r -> BOOLEAN], nb \in [1..r -> BOOLEAN] :
              loaded = [columns |-> <<"a", "b">>, nrows |-> r, null |-> <<na, nb>>]
    /\ cdf = loaded
    /\ \E cols \in ColumnArgs, dn \in BOOLEAN, t \in ThresholdArgs :
          args = [columns |-> cols, drop_nulls |-> dn, null_threshold |-> t]
    /\ cpc = "select"

\* if columns: df = df[available_cols]
SelectColumns ==
    /\ cpc = "select"
    /\ cdf' = IF args.columns # <<>> THEN select_columns(cdf, args.columns) ELSE cdf
    /\ cpc' = "dropna"
    /\ UNCHANGED <<loaded, args>>
    /\ UNCHANGED profileVars

\* if drop_nulls: df = df.dropna()
DropNullRows ==
    /\ cpc = "dropna"
    /\ cdf' = IF args.drop_nulls THEN drop_null_rows(cdf) ELSE cdf
    /\ cpc' = "threshold"
    /\ UNCHANGED <<loaded, args>>
    /\ UNCHANGED profileVars

\* if null_threshold: df = df.loc[:, ...]; None and 0 are both falsy.
NullThreshold ==
    /\ cpc = "threshold"
    /\ cdf' = IF args.null_threshold # <<>> /\ args.null_threshold[1] # 0
              THEN threshold_filter(cdf, args.null_threshold[1])
              ELSE cdf
    /\ cpc' = "export"
    /\ UNCHANGED <<loaded, args>>
    /\ UNCHANGED profileVars

\* The DataFrame is written and returned.
Export ==
    /\ cpc = "export"
    /\ cpc' = "returned"
    /\ UNCHANGED <<loaded, cdf, args>>
    /\ UNCHANGED profileVars

NextClean == SelectColumns \/ DropNullRows \/ NullThreshold \/ Export

SpecClean == InitClean /\ [][NextClean]_vars

(* ------------------------------- C18 ----------------------------------- *)
\* The columns of the loaded DataFrame that the selection step keeps.
SelectedNames ==
    IF args.columns # <<>>
    THEN {args.columns[k] : k \in 1..Len(args.columns)}
             \cap {loaded.columns[c] : c \in 1..Len(loaded.columns)}
    ELSE {loaded.columns[c] : c \in 1..Len(loaded.columns)}

\* The rows of the loaded DataFrame that remain after the row-dropping step.
RemainingRows ==
    IF args.drop_nulls
    THEN {r \in 1..loaded.nrows :
             \A name \in SelectedNames : ~loaded.null[ColumnPos(loaded, name)][r]}
    ELSE 1..loaded.nrows

\* The nulls of a loaded column among the remaining rows.
NullsRemaining(name) ==
    Cardinality({r \in RemainingRows : loaded.null[ColumnPos(loaded, name)][r]})

\* The fraction of nulls of a column among the remaining rows is strictly
\* less than t / 100 (never so when no row remains).
FractionBelow(name, t) ==
    RemainingRows # {} /\ 100 * NullsRemaining(name) < t * Cardinality(RemainingRows)

\* The names of the columns of the DataFrame being cleaned.
CleanedNames == {cdf.columns[c] : c \in 1..Len(cdf.columns)}

\* The threshold step is over.
AfterThreshold == cpc \in {"export", "returned"}

====
